---------------------------- MODULE Spec2Model ----------------------------
(***************************************************************************)
(* Model of infrahub-sync's two adapter utilities (get_value and           *)
(* derive_identifier_key, infrahub_sync/adapters/utils.py) and of the      *)
(* control flow of its CLI commands (infrahub_sync/cli.py).                *)
(*                                                                         *)
(* Python values are records tagged by their type.  Strings (dictionary    *)
(* keys, attribute names, dotted paths) are sequences of one-character     *)
(* strings, so that "." in name, str.split and str.endswith are computed   *)
(* character by character.                                                 *)
(***************************************************************************)
EXTENDS Integers, Sequences, FiniteSets, TLC

VARIABLES
    gv_in,      \* get_value: the arguments of the outermost call
    gv_obj,     \* get_value: obj of the call being executed
    gv_name,    \* get_value: name of the call being executed
    gv_depth,   \* get_value: number of recursive calls made so far
    gv_pc,      \* get_value: "idle", "call", "returned" or "raised"
    gv_ret,     \* get_value: the value returned (or the exception raised)
    dk_obj,     \* derive_identifier_key: the argument
    dk_obj_id,  \* derive_identifier_key: the local obj_id
    dk_i,       \* derive_identifier_key: position of the loop in obj.items()
    dk_pc,      \* derive_identifier_key: "idle", "get", "loop", "check",
                \* "returned" or "raised"
    dk_ret,     \* derive_identifier_key: the value returned or the exception
    cli_cmd,            \* the command that was invoked: "diff", "sync", "generate"
    cli_opts,           \* its options: name, config_file, branch, diff
    cli_pc,             \* the statement the command is at
    cli_status,         \* "idle", "running", "done", "aborted" (typer.Abort) or
                        \* "failed" (an exception nothing catches)
    cli_calls,          \* the calls made to the sync engine and the SDK, in order
    cli_console,        \* what was printed, in order
    cli_sync_instance,  \* the local sync_instance
    cli_outcome,        \* how get_potenda_from_instance and the two loads ended
    cli_mydiff,         \* the local mydiff: "unset", "diffs" or "nodiffs"
    cli_sdk             \* generate: infrahub_address and infrahub_branch

gv_vars == <<gv_in, gv_obj, gv_name, gv_depth, gv_pc, gv_ret>>

dk_vars == <<dk_obj, dk_obj_id, dk_i, dk_pc, dk_ret>>

cli_vars == <<cli_cmd, cli_opts, cli_pc, cli_status, cli_calls, cli_console,
              cli_sync_instance, cli_outcome, cli_mydiff, cli_sdk>>

vars == <<gv_vars, dk_vars, cli_vars>>

---------------------------------------------------------------------------
(* Bounds of the model. *)

\* A record has at most MaxWeight fields in total, nested ones included.
MaxWeight == 2

\* A dotted path has at most MaxSegments segments.
MaxSegments == 3

\* The mapping given to derive_identifier_key has at most MaxEntries entries.
MaxEntries == 3

---------------------------------------------------------------------------
(* Python values. *)

PyNone == [kind |-> "NoneType"]
PyInt(n) == [kind |-> "int", n |-> n]
PyStr(s) == [kind |-> "str", s |-> s]
\* items: the entries in insertion order, each [key |-> k, value |-> v]
PyDict(items) == [kind |-> "dict", items |-> items]
Entry(k, v) == [key |-> k, value |-> v]
\* An instance of a user class; truth is what bool(instance) gives (False for
\* a class whose __bool__ or __len__ says so).
PyObject(attrs, truth) == [kind |-> "object", attrs |-> attrs, truth |-> truth]
\* An exception raised by the evaluation of an expression.
PyRaise(exc, msg) == [kind |-> "raise", exc |-> exc, msg |-> msg]

IsRaise(v) == v.kind = "raise"

\* bool(v), as `not sub_obj` and `and value` evaluate it
Truthy(v) ==
    CASE v.kind = "NoneType" -> FALSE
      [] v.kind = "int"      -> v.n # 0
      [] v.kind = "str"      -> v.s # <<>>
      [] v.kind = "dict"     -> v.items # <<>>
      [] v.kind = "object"   -> v.truth

\* isinstance(obj, dict)
IsDict(v) == v.kind = "dict"

\* The entries of a sequence of [key, value] entries whose key is k
EntriesOf(entries, k) == {i \in 1..Len(entries) : entries[i].key = k}

\* d[name]: the value stored under name, KeyError when there is none
DictGetNoDefault(d, name) ==
    IF EntriesOf(d.items, name) = {}
    THEN PyRaise("KeyError", "")
    ELSE d.items[CHOOSE i \in EntriesOf(d.items, name) : TRUE].value

\* dict.get(name): the value stored under name, None when there is none
DictGet(d, name) ==
    IF EntriesOf(d.items, name) = {}
    THEN PyNone
    ELSE d.items[CHOOSE i \in EntriesOf(d.items, name) : TRUE].value

\* getattr(obj, name): AttributeError when obj has no such attribute
GetAttrNoDefault(obj, name, default) ==
    IF obj.kind = "object" /\ EntriesOf(obj.attrs, name) # {}
    THEN obj.attrs[CHOOSE i \in EntriesOf(obj.attrs, name) : TRUE].value
    ELSE PyRaise("AttributeError", "")

\* getattr(obj, name, default).  The names the model draws ("" and "a") are
\* attributes of no built-in type, so only class instances have them.
GetAttr(obj, name, default) ==
    IF obj.kind = "object" /\ EntriesOf(obj.attrs, name) # {}
    THEN obj.attrs[CHOOSE i \in EntriesOf(obj.attrs, name) : TRUE].value
    ELSE default

---------------------------------------------------------------------------
(* Strings. *)

Dot == "."

\* "." in name
HasDot(name) == \E i \in 1..Len(name) : name[i] = Dot

FirstDot(name) == CHOOSE i \in 1..Len(name) :
                      /\ name[i] = Dot
                      /\ \A j \in 1..(i - 1) : name[j] # Dot

\* name.split(".", maxsplit=1), for a name that contains "."
SplitOnce(name) ==
    <<SubSeq(name, 1, FirstDot(name) - 1),
      SubSeq(name, FirstDot(name) + 1, Len(name))>>

---------------------------------------------------------------------------
(* get_value(obj, name) *)

\* obj.get(name) if isinstance(obj, dict) else getattr(obj, name, None)
Access(obj, name) ==
    IF IsDict(obj) THEN DictGet(obj, name) ELSE GetAttr(obj, name, PyNone)

\* `sub_obj is None` in the place of `not sub_obj`
NotSubObjIsNone(sub_obj) == sub_obj = PyNone

\* `not sub_obj`: the test that ends the resolution of a dotted name
NotSubObj(sub_obj) == ~Truthy(sub_obj)

\* Lines 8-12 with the falsy test of line 19 applied to the value looked up.
GetValueDirectOrNone ==
    /\ gv_pc = "call"
    /\ ~HasDot(gv_name)
    /\ LET v == Access(gv_obj, gv_name)
       IN  /\ gv_ret' = IF IsRaise(v) \/ ~NotSubObj(v) THEN v ELSE PyNone
           /\ gv_pc' = IF IsRaise(v) THEN "raised" ELSE "returned"
    /\ UNCHANGED <<gv_in, gv_obj, gv_name, gv_depth, dk_vars, cli_vars>>

\* Lines 8-12: a name without "." is looked up on obj and returned as it is.
GetValueDirect ==
    /\ gv_pc = "call"
    /\ ~HasDot(gv_name)
    /\ LET v == Access(gv_obj, gv_name)
       IN  /\ gv_ret' = v
           /\ gv_pc' = IF IsRaise(v) THEN "raised" ELSE "returned"
    /\ UNCHANGED <<gv_in, gv_obj, gv_name, gv_depth, dk_vars, cli_vars>>

\* Lines 14-20: the first segment resolves to a falsy value: return None.
GetValueStop ==
    /\ gv_pc = "call"
    /\ HasDot(gv_name)
    /\ LET sub_obj == Access(gv_obj, SplitOnce(gv_name)[1])
       IN  /\ IsRaise(sub_obj) \/ NotSubObj(sub_obj)
           /\ gv_ret' = IF IsRaise(sub_obj) THEN sub_obj ELSE PyNone
           /\ gv_pc' = IF IsRaise(sub_obj) THEN "raised" ELSE "returned"
    /\ UNCHANGED <<gv_in, gv_obj, gv_name, gv_depth, dk_vars, cli_vars>>

\* Lines 14-21: the first segment resolves to a truthy value: the call
\* get_value(obj=sub_obj, name=remaining_part), whose result is returned.
GetValueRecurse ==
    /\ gv_pc = "call"
    /\ HasDot(gv_name)
    /\ LET sub_obj == Access(gv_obj, SplitOnce(gv_name)[1])
       IN  /\ ~IsRaise(sub_obj)
           /\ ~NotSubObj(sub_obj)
           /\ gv_obj' = sub_obj
           /\ gv_name' = SplitOnce(gv_name)[2]
    /\ gv_depth' = gv_depth + 1
    /\ UNCHANGED <<gv_in, gv_pc, gv_ret, dk_vars, cli_vars>>

---------------------------------------------------------------------------
(* derive_identifier_key(obj) *)

\* key.endswith(suffix)
EndsWith(key, suffix) ==
    /\ Len(key) >= Len(suffix)
    /\ SubSeq(key, Len(key) - Len(suffix) + 1, Len(key)) = suffix

Id == <<"i", "d">>

UnderscoreId == <<"_", "i", "d">>

NoIdentifierMsg == "No suitable identifier key found in object"

\* Lines 26-27, with the scan of lines 28-31 entered whatever obj.get("id") is.
DeriveGetIdAlwaysScan ==
    /\ dk_pc = "get"
    /\ dk_obj_id' = DictGet(dk_obj, Id)
    /\ dk_i' = 1
    /\ dk_pc' = "loop"
    /\ UNCHANGED <<dk_obj, dk_ret, gv_vars, cli_vars>>

\* Lines 26-27, without the scan of lines 28-31.
DeriveGetIdNeverScan ==
    /\ dk_pc = "get"
    /\ dk_obj_id' = DictGet(dk_obj, Id)
    /\ dk_pc' = "check"
    /\ UNCHANGED <<dk_obj, dk_i, dk_ret, gv_vars, cli_vars>>

\* Lines 26-27: obj_id = obj.get("id"); the scan is entered when it is None.
DeriveGetId ==
    /\ dk_pc = "get"
    /\ dk_obj_id' = DictGet(dk_obj, Id)
    /\ IF dk_obj_id' = PyNone
       THEN dk_i' = 1 /\ dk_pc' = "loop"
       ELSE dk_i' = dk_i /\ dk_pc' = "check"
    /\ UNCHANGED <<dk_obj, dk_ret, gv_vars, cli_vars>>

\* Lines 28-31 without the break: a later matching entry replaces obj_id.
DeriveLoopMatchNoBreak ==
    /\ dk_pc = "loop"
    /\ dk_i <= Len(dk_obj.items)
    /\ EndsWith(dk_obj.items[dk_i].key, UnderscoreId)
    /\ Truthy(dk_obj.items[dk_i].value)
    /\ dk_obj_id' = dk_obj.items[dk_i].value
    /\ dk_i' = dk_i + 1
    /\ UNCHANGED <<dk_obj, dk_pc, dk_ret, gv_vars, cli_vars>>

\* Lines 28-31: the entry's key ends with "_id" and its value is truthy:
\* obj_id takes the value and the loop is left.
DeriveLoopMatch ==
    /\ dk_pc = "loop"
    /\ dk_i <= Len(dk_obj.items)
    /\ EndsWith(dk_obj.items[dk_i].key, UnderscoreId)
    /\ Truthy(dk_obj.items[dk_i].value)
    /\ dk_obj_id' = dk_obj.items[dk_i].value
    /\ dk_pc' = "check"
    /\ UNCHANGED <<dk_obj, dk_i, dk_ret, gv_vars, cli_vars>>

\* Lines 28-29: the entry does not match; the loop goes on to the next one.
DeriveLoopSkip ==
    /\ dk_pc = "loop"
    /\ dk_i <= Len(dk_obj.items)
    /\ ~(/\ EndsWith(dk_obj.items[dk_i].key, UnderscoreId)
         /\ Truthy(dk_obj.items[dk_i].value))
    /\ dk_i' = dk_i + 1
    /\ UNCHANGED <<dk_obj, dk_obj_id, dk_pc, dk_ret, gv_vars, cli_vars>>

\* Line 28: obj.items() is exhausted.
DeriveLoopEnd ==
    /\ dk_pc = "loop"
    /\ dk_i > Len(dk_obj.items)
    /\ dk_pc' = "check"
    /\ UNCHANGED <<dk_obj, dk_obj_id, dk_i, dk_ret, gv_vars, cli_vars>>

\* Lines 34-37 with the raise left out: None is returned.
DeriveRaiseReturnsNone ==
    /\ dk_pc = "check"
    /\ dk_obj_id = PyNone
    /\ dk_ret' = PyNone
    /\ dk_pc' = "returned"
    /\ UNCHANGED <<dk_obj, dk_obj_id, dk_i, gv_vars, cli_vars>>

\* Lines 34-36: no identifier was found: raise ValueError(msg).
DeriveRaise ==
    /\ dk_pc = "check"
    /\ dk_obj_id = PyNone
    /\ dk_ret' = PyRaise("ValueError", NoIdentifierMsg)
    /\ dk_pc' = "raised"
    /\ UNCHANGED <<dk_obj, dk_obj_id, dk_i, gv_vars, cli_vars>>

\* Line 37: return obj_id.
DeriveReturn ==
    /\ dk_pc = "check"
    /\ dk_obj_id # PyNone
    /\ dk_ret' = dk_obj_id
    /\ dk_pc' = "returned"
    /\ UNCHANGED <<dk_obj, dk_obj_id, dk_i, gv_vars, cli_vars>>

DeriveIdle ==
    /\ dk_obj = PyDict(<<>>)
    /\ dk_obj_id = PyNone
    /\ dk_i = 0
    /\ dk_pc = "idle"
    /\ dk_ret = PyNone

GetValueIdle ==
    /\ gv_in = [obj |-> PyNone, name |-> <<>>]
    /\ gv_obj = PyNone
    /\ gv_name = <<>>
    /\ gv_depth = 0
    /\ gv_pc = "idle"
    /\ gv_ret = PyNone

---------------------------------------------------------------------------
(* The commands of cli.py *)

Chars(s) == PyStr(s)

Infrahub == Chars(<<"i", "n", "f", "r", "a", "h", "u", "b">>)

Main == Chars(<<"m", "a", "i", "n">>)

Url == <<"u", "r", "l">>

Branch == <<"b", "r", "a", "n", "c", "h">>

Unbound == [kind |-> "unbound"]

\* The settings of an adapter: none, empty, with a url, with a url and a branch
SettingsValues ==
    {PyNone,
     PyDict(<<>>),
     PyDict(<<Entry(Url, PyStr(<<"u">>))>>),
     PyDict(<<Entry(Url, PyStr(<<"u">>)), Entry(Branch, PyStr(<<"b">>))>>)}

AdapterNames == {Infrahub, Chars(<<"n", "e", "t", "b", "o", "x">>)}

Adapters == [name : AdapterNames, settings : SettingsValues]

\* The sync instances get_instance can return: source and destination
\* adapters, each with a name and settings
SyncInstances == [source : Adapters, destination : Adapters]

B2I(b) == IF b THEN 1 ELSE 0

\* sum([bool(name), bool(config_file)]) != 0
OptionsInvalidWhenNone(name, config_file) ==
    B2I(Truthy(name)) + B2I(Truthy(config_file)) = 0

\* sum([bool(name), bool(config_file)]) != 1
OptionsInvalid(name, config_file) ==
    B2I(Truthy(name)) + B2I(Truthy(config_file)) # 1

\* print_error_and_abort(message): print the error, raise typer.Abort()
print_error_and_abort(message) ==
    /\ cli_console' = Append(cli_console, message)
    /\ cli_status' = "aborted"
    /\ cli_pc' = "end"

\* An exception that no except clause of the command catches
Uncaught ==
    /\ cli_status' = "failed"
    /\ cli_pc' = "end"
    /\ UNCHANGED cli_console

\* if sum([bool(name), bool(config_file)]) != 1: print_error_and_abort(...)
CheckOptions(message) ==
    /\ cli_pc = "options"
    /\ IF OptionsInvalid(cli_opts.name, cli_opts.config_file)
       THEN print_error_and_abort(message)
       ELSE cli_pc' = "get_instance" /\ UNCHANGED <<cli_console, cli_status>>
    /\ UNCHANGED <<cli_cmd, cli_opts, cli_calls, cli_sync_instance,
                   cli_outcome, cli_mydiff, cli_sdk, gv_vars, dk_vars>>

\* sync_instance = get_instance(...); if not sync_instance: abort
LoadInstance(message, next) ==
    /\ cli_pc = "get_instance"
    /\ cli_calls' = Append(cli_calls, "get_instance")
    /\ \E inst \in SyncInstances \cup {PyNone} :
          /\ cli_sync_instance' = inst
          /\ IF inst = PyNone
             THEN print_error_and_abort(message)
             ELSE cli_pc' = next /\ UNCHANGED <<cli_console, cli_status>>
    /\ UNCHANGED <<cli_cmd, cli_opts, cli_outcome, cli_mydiff, cli_sdk,
                   gv_vars, dk_vars>>

\* try: ptd = get_potenda_from_instance(...) except ValueError: abort
InitPotenda ==
    /\ cli_pc = "get_potenda"
    /\ cli_calls' = Append(cli_calls, "get_potenda_from_instance")
    /\ \E out \in {"ok", "ValueError", "Exception"} :
          /\ cli_outcome' = [cli_outcome EXCEPT !.potenda = out]
          /\ CASE out = "ok" ->
                    cli_pc' = "source_load" /\ UNCHANGED <<cli_console, cli_status>>
               [] out = "ValueError" ->
                    print_error_and_abort("Failed to initialize the Sync Instance")
               [] out = "Exception" -> Uncaught
    /\ UNCHANGED <<cli_cmd, cli_opts, cli_sync_instance, cli_mydiff, cli_sdk,
                   gv_vars, dk_vars>>

\* try: ptd.source_load() ... except ValueError as exc: abort
LoadSource ==
    /\ cli_pc = "source_load"
    /\ cli_calls' = Append(cli_calls, "source_load")
    /\ \E out \in {"ok", "ValueError", "Exception"} :
          /\ cli_outcome' = [cli_outcome EXCEPT !.source_load = out]
          /\ CASE out = "ok" ->
                    cli_pc' = "destination_load"
                    /\ UNCHANGED <<cli_console, cli_status>>
               [] out = "ValueError" -> print_error_and_abort("ValueError")
               [] out = "Exception" -> Uncaught
    /\ UNCHANGED <<cli_cmd, cli_opts, cli_sync_instance, cli_mydiff, cli_sdk,
                   gv_vars, dk_vars>>

\* try: ... ptd.destination_load() except ValueError as exc: abort
LoadDestination ==
    /\ cli_pc = "destination_load"
    /\ cli_calls' = Append(cli_calls, "destination_load")
    /\ \E out \in {"ok", "ValueError", "Exception"} :
          /\ cli_outcome' = [cli_outcome EXCEPT !.destination_load = out]
          /\ CASE out = "ok" ->
                    cli_pc' = "diff" /\ UNCHANGED <<cli_console, cli_status>>
               [] out = "ValueError" -> print_error_and_abort("ValueError")
               [] out = "Exception" -> Uncaught
    /\ UNCHANGED <<cli_cmd, cli_opts, cli_sync_instance, cli_mydiff, cli_sdk,
                   gv_vars, dk_vars>>

(* diff_cmd *)

DiffCheckOptions ==
    /\ cli_cmd = "diff"
    /\ CheckOptions("Please specify exactly one of 'name' or 'config-file'.")

DiffLoadInstance ==
    /\ cli_cmd = "diff"
    /\ LoadInstance("Failed to load sync instance.", "get_potenda")

DiffInitPotenda ==
    /\ cli_cmd = "diff"
    /\ InitPotenda

DiffLoadSource ==
    /\ cli_cmd = "diff"
    /\ LoadSource

DiffLoadDestination ==
    /\ cli_cmd = "diff"
    /\ LoadDestination

\* mydiff = ptd.diff(); print(mydiff.str())
DiffPrint ==
    /\ cli_cmd = "diff"
    /\ cli_pc = "diff"
    /\ cli_calls' = Append(cli_calls, "diff")
    /\ cli_mydiff' \in {"diffs", "nodiffs"}
    /\ cli_console' = Append(cli_console, "mydiff")
    /\ cli_status' = "done"
    /\ cli_pc' = "end"
    /\ UNCHANGED <<cli_cmd, cli_opts, cli_sync_instance, cli_outcome, cli_sdk,
                   gv_vars, dk_vars>>

(* sync_cmd *)

SyncCheckOptions ==
    /\ cli_cmd = "sync"
    /\ CheckOptions("Please specify exactly one of 'name' or 'config-file'.")

SyncLoadInstance ==
    /\ cli_cmd = "sync"
    /\ LoadInstance("Failed to load sync instance.", "get_potenda")

SyncInitPotenda ==
    /\ cli_cmd = "sync"
    /\ InitPotenda

SyncLoadSource ==
    /\ cli_cmd = "sync"
    /\ LoadSource

SyncLoadDestination ==
    /\ cli_cmd = "sync"
    /\ LoadDestination

\* mydiff = ptd.diff()
SyncDiff ==
    /\ cli_cmd = "sync"
    /\ cli_pc = "diff"
    /\ cli_calls' = Append(cli_calls, "diff")
    /\ cli_mydiff' \in {"diffs", "nodiffs"}
    /\ cli_pc' = "has_diffs"
    /\ UNCHANGED <<cli_cmd, cli_opts, cli_status, cli_console,
                   cli_sync_instance, cli_outcome, cli_sdk, gv_vars, dk_vars>>

\* ptd.sync(diff=mydiff) without the test of mydiff.has_diffs()
SyncApplyUnconditionally ==
    /\ cli_cmd = "sync"
    /\ cli_pc = "has_diffs"
    /\ cli_calls' = Append(cli_calls, "sync")
    /\ cli_console' =
          (IF cli_opts.diff THEN Append(cli_console, "mydiff") ELSE cli_console)
              \o <<"Sync: Completed">>
    /\ cli_status' = "done"
    /\ cli_pc' = "end"
    /\ UNCHANGED <<cli_cmd, cli_opts, cli_sync_instance, cli_outcome,
                   cli_mydiff, cli_sdk, gv_vars, dk_vars>>

\* if mydiff.has_diffs(): print the diff when asked to, ptd.sync(diff=mydiff)
SyncApply ==
    /\ cli_cmd = "sync"
    /\ cli_pc = "has_diffs"
    /\ cli_mydiff = "diffs"
    /\ cli_calls' = Append(cli_calls, "sync")
    /\ cli_console' =
          (IF cli_opts.diff THEN Append(cli_console, "mydiff") ELSE cli_console)
              \o <<"Sync: Completed">>
    /\ cli_status' = "done"
    /\ cli_pc' = "end"
    /\ UNCHANGED <<cli_cmd, cli_opts, cli_sync_instance, cli_outcome,
                   cli_mydiff, cli_sdk, gv_vars, dk_vars>>

\* else: "No difference found. Nothing to sync"
SyncNothing ==
    /\ cli_cmd = "sync"
    /\ cli_pc = "has_diffs"
    /\ cli_mydiff # "diffs"
    /\ cli_console' = Append(cli_console, "No difference found. Nothing to sync")
    /\ cli_status' = "done"
    /\ cli_pc' = "end"
    /\ UNCHANGED <<cli_cmd, cli_opts, cli_calls, cli_sync_instance,
                   cli_outcome, cli_mydiff, cli_sdk, gv_vars, dk_vars>>

(* generate *)

GenerateCheckOptions ==
    /\ cli_cmd = "generate"
    /\ CheckOptions("Please specify exactly one of 'name' or 'config_file'.")

GenerateLoadInstance ==
    /\ cli_cmd = "generate"
    /\ LoadInstance("Unable to find the sync", "settings")

\* settings and isinstance(settings, dict)
UsableSettings(settings) == Truthy(settings) /\ IsDict(settings)

\* settings.get("branch"), then the option, then "main"
InfrahubBranch(settings, branch) ==
    LET infrahub_branch == DictGet(settings, Branch)
    IN  IF ~Truthy(infrahub_branch) /\ Truthy(branch) THEN branch
        ELSE IF ~Truthy(infrahub_branch) /\ ~Truthy(branch) THEN Main
        ELSE infrahub_branch

\* Lines 127-150: the address and the branch of the Infrahub side.  A local
\* that no branch assigned is Unbound.
SdkSettings(inst, branch) ==
    IF inst.destination.name = Infrahub
    THEN IF UsableSettings(inst.destination.settings)
         THEN [address |-> DictGet(inst.destination.settings, Url),
               branch |-> InfrahubBranch(inst.destination.settings, branch)]
         ELSE [address |-> Unbound, branch |-> Unbound]
    ELSE IF inst.source.name = Infrahub
    THEN IF UsableSettings(inst.source.settings)
         THEN [address |-> DictGet(inst.source.settings, Url),
               branch |-> InfrahubBranch(inst.source.settings, branch)]
         ELSE [address |-> Unbound, branch |-> Unbound]
    ELSE [address |-> Unbound, branch |-> Unbound]

\* Lines 127-152: Config(...) and InfrahubClientSync(...) read the locals;
\* reading an unbound one raises UnboundLocalError.
GenerateClient ==
    /\ cli_cmd = "generate"
    /\ cli_pc = "settings"
    /\ cli_sdk' = SdkSettings(cli_sync_instance, cli_opts.branch)
    /\ IF cli_sdk'.address = Unbound
       THEN Uncaught
       ELSE cli_pc' = "schema" /\ UNCHANGED <<cli_console, cli_status>>
    /\ UNCHANGED <<cli_cmd, cli_opts, cli_calls, cli_sync_instance,
                   cli_outcome, cli_mydiff, gv_vars, dk_vars>>

\* try: schema = client.schema.all() except ServerNotResponsiveError: abort
GenerateSchema ==
    /\ cli_cmd = "generate"
    /\ cli_pc = "schema"
    /\ cli_calls' = Append(cli_calls, "schema.all")
    /\ \E out \in {"ok", "ServerNotResponsiveError"} :
          IF out = "ok"
          THEN cli_pc' = "missing" /\ UNCHANGED <<cli_console, cli_status>>
          ELSE print_error_and_abort("ServerNotResponsiveError")
    /\ UNCHANGED <<cli_cmd, cli_opts, cli_sync_instance, cli_outcome,
                   cli_mydiff, cli_sdk, gv_vars, dk_vars>>

\* missing_schema_models = find_missing_schema_model(...); abort if any
GenerateMissing ==
    /\ cli_cmd = "generate"
    /\ cli_pc = "missing"
    /\ cli_calls' = Append(cli_calls, "find_missing_schema_model")
    /\ \E missing \in BOOLEAN :
          IF missing
          THEN print_error_and_abort(
                   "One or more model model are not present in the Schema")
          ELSE cli_pc' = "render" /\ UNCHANGED <<cli_console, cli_status>>
    /\ UNCHANGED <<cli_cmd, cli_opts, cli_sync_instance, cli_outcome,
                   cli_mydiff, cli_sdk, gv_vars, dk_vars>>

\* rendered_files = render_adapter(...); print each
GenerateRender ==
    /\ cli_cmd = "generate"
    /\ cli_pc = "render"
    /\ cli_calls' = Append(cli_calls, "render_adapter")
    /\ cli_console' = Append(cli_console, "Rendered template")
    /\ cli_status' = "done"
    /\ cli_pc' = "end"
    /\ UNCHANGED <<cli_cmd, cli_opts, cli_sync_instance, cli_outcome,
                   cli_mydiff, cli_sdk, gv_vars, dk_vars>>

NoOutcome == [potenda |-> "-", source_load |-> "-", destination_load |-> "-"]

UnboundSdk == [address |-> Unbound, branch |-> Unbound]

CliIdle ==
    /\ cli_cmd = "none"
    /\ cli_opts = [name |-> PyNone, config_file |-> PyNone,
                   branch |-> PyNone, diff |-> TRUE]
    /\ cli_pc = "end"
    /\ cli_status = "idle"
    /\ cli_calls = <<>>
    /\ cli_console = <<>>
    /\ cli_sync_instance = PyNone
    /\ cli_outcome = NoOutcome
    /\ cli_mydiff = "unset"
    /\ cli_sdk = UnboundSdk

---------------------------------------------------------------------------
(* The inputs of get_value. *)

Keys == {<<"a">>, <<"b">>}

Scalars == {PyNone, PyInt(0), PyInt(1), PyStr(<<>>), PyStr(<<"x">>)}

\* dict, instance of a plain class, instance of a class that is falsy
Container(shape, entries) ==
    CASE shape = "dict"   -> PyDict(entries)
      [] shape = "truthy" -> PyObject(entries, TRUE)
      [] shape = "falsy"  -> PyObject(entries, FALSE)

Shapes == {"dict", "truthy", "falsy"}

RECURSIVE ValuesOfWeight(_)
\* The entry lists with n fields in total, nested ones included
EntriesOfWeight(n) ==
    {<<Entry(k, v)>> : k \in Keys, v \in ValuesOfWeight(n - 1)}
    \cup UNION { {<<Entry(<<"a">>, v), Entry(<<"b">>, w)>> :
                      v \in ValuesOfWeight(i), w \in ValuesOfWeight(n - 2 - i)}
                 : i \in 0..(n - 2) }

ValuesOfWeight(n) ==
    IF n = 0
    THEN Scalars \cup {Container(s, <<>>) : s \in Shapes}
    ELSE {Container(s, e) : s \in Shapes, e \in EntriesOfWeight(n)}

Records == UNION {ValuesOfWeight(n) : n \in 0..MaxWeight}

\* The segments paths are made of; "b" is a key that no path names.
Segments == {<<>>, <<"a">>}

RECURSIVE PathsOf(_)
\* The paths of n segments joined by "."
PathsOf(n) ==
    IF n = 1 THEN Segments
    ELSE {s \o <<Dot>> \o p : s \in Segments, p \in PathsOf(n - 1)}

Paths == UNION {PathsOf(n) : n \in 1..MaxSegments}

GetValueInit ==
    /\ gv_in \in [obj : Records, name : Paths]
    /\ gv_obj = gv_in.obj
    /\ gv_name = gv_in.name
    /\ gv_depth = 0
    /\ gv_pc = "call"
    /\ gv_ret = PyNone
    /\ DeriveIdle
    /\ CliIdle

GetValueNext == GetValueDirect \/ GetValueStop \/ GetValueRecurse

SpecGetValue == GetValueInit /\ [][GetValueNext]_vars


---------------------------------------------------------------------------
(* The inputs of derive_identifier_key. *)

DeriveKeys ==
    {Id, <<"a", "_", "i", "d">>, <<"b", "_", "i", "d">>,
     <<"c", "_", "i", "d">>, <<"a", "i", "d">>}

DeriveValues == {PyNone, PyInt(0), PyStr(<<>>), PyStr(<<"x">>), PyStr(<<"y">>)}

\* The mappings of n entries, in every insertion order, no key twice
EntryLists(n) ==
    {e \in [1..n -> [key : DeriveKeys, value : DeriveValues]] :
        \A i, j \in 1..n : i # j => e[i].key # e[j].key}

Mappings == {PyDict(e) : e \in UNION {EntryLists(n) : n \in 0..MaxEntries}}

DeriveInit ==
    /\ dk_obj \in Mappings
    /\ dk_obj_id = PyNone
    /\ dk_i = 0
    /\ dk_pc = "get"
    /\ dk_ret = PyNone
    /\ GetValueIdle
    /\ CliIdle

DeriveNext ==
    \/ DeriveGetId
    \/ DeriveLoopMatch
    \/ DeriveLoopSkip
    \/ DeriveLoopEnd
    \/ DeriveRaise
    \/ DeriveReturn

SpecDerive == DeriveInit /\ [][DeriveNext]_vars

---------------------------------------------------------------------------
(* The inputs of the commands. *)

\* What --name and --config-file can be: not given, empty, given
OptionValues == {PyNone, PyStr(<<>>), PyStr(<<"x">>)}

BranchValues == {PyNone, PyStr(<<"d", "e", "v">>)}

CliInit ==
    /\ cli_cmd \in {"diff", "sync", "generate"}
    /\ cli_opts \in [name : OptionValues, config_file : OptionValues,
                     branch : BranchValues, diff : BOOLEAN]
    /\ cli_cmd # "sync" => cli_opts.diff
    /\ cli_pc = "options"
    /\ cli_status = "running"
    /\ cli_calls = <<>>
    /\ cli_console = <<>>
    /\ cli_sync_instance = PyNone
    /\ cli_outcome = NoOutcome
    /\ cli_mydiff = "unset"
    /\ cli_sdk = UnboundSdk
    /\ GetValueIdle
    /\ DeriveIdle

CliNext ==
    \/ DiffCheckOptions
    \/ DiffLoadInstance
    \/ DiffInitPotenda
    \/ DiffLoadSource
    \/ DiffLoadDestination
    \/ DiffPrint
    \/ SyncCheckOptions
    \/ SyncLoadInstance
    \/ SyncInitPotenda
    \/ SyncLoadSource
    \/ SyncLoadDestination
    \/ SyncDiff
    \/ SyncApply
    \/ SyncNothing
    \/ GenerateCheckOptions
    \/ GenerateLoadInstance
    \/ GenerateClient
    \/ GenerateSchema
    \/ GenerateMissing
    \/ GenerateRender

SpecCli == CliInit /\ [][CliNext]_vars

---------------------------------------------------------------------------
(* What the specification says of get_value, stated on the record and the  *)
(* path the outermost call was given.                                      *)

None == [kind |-> "NoneType"]

DotPositions(p) == {i \in 1..Len(p) : p[i] = "."}

RECURSIVE SegmentsOfPath(_)
\* The segments of a dotted path, in order
SegmentsOfPath(p) ==
    IF DotPositions(p) = {} THEN <<p>>
    ELSE LET d == CHOOSE i \in DotPositions(p) : \A j \in DotPositions(p) : i <= j
         IN  <<SubSeq(p, 1, d - 1)>> \o SegmentsOfPath(SubSeq(p, d + 1, Len(p)))

IsMapping(v) == v.kind = "dict"

HasField(v, f) ==
    \/ v.kind = "dict" /\ \E i \in 1..Len(v.items) : v.items[i].key = f
    \/ v.kind = "object" /\ \E i \in 1..Len(v.attrs) : v.attrs[i].key = f

\* The value of field f of v; None when v has no such field
FieldOf(v, f) ==
    IF ~HasField(v, f) THEN None
    ELSE IF v.kind = "dict"
         THEN LET i == CHOOSE i \in 1..Len(v.items) : v.items[i].key = f
              IN  v.items[i].value
         ELSE LET i == CHOOSE i \in 1..Len(v.attrs) : v.attrs[i].key = f
              IN  v.attrs[i].value

\* None, zero, the empty string, an empty container, an instance that is falsy
IsFalsy(v) ==
    \/ v = None
    \/ v.kind = "int" /\ v.n = 0
    \/ v.kind = "str" /\ Len(v.s) = 0
    \/ v.kind = "dict" /\ Len(v.items) = 0
    \/ v.kind = "object" /\ ~v.truth

RECURSIVE Follow(_, _)
\* The value reached from v by plain field access along segs
Follow(v, segs) ==
    IF segs = <<>> THEN v ELSE Follow(FieldOf(v, Head(segs)), Tail(segs))

\* Some segment before the last one resolves to a falsy value
FalsyBeforeLast(v, segs) ==
    \E i \in 1..(Len(segs) - 1) : IsFalsy(Follow(v, SubSeq(segs, 1, i)))

Resolved(v, segs) ==
    IF FalsyBeforeLast(v, segs) THEN None ELSE Follow(v, segs)

InSegments == SegmentsOfPath(gv_in.name)

\* C1: for a path of one segment, get_value returns the value stored under
\* the key when the record is a mapping that has it, the attribute when the
\* record is an object that has it, and None when the key or the attribute
\* is missing.
C1_SingleSegment ==
    (gv_pc # "call" /\ DotPositions(gv_in.name) = {}) =>
        /\ gv_pc = "returned"
        /\ IsMapping(gv_in.obj) /\ HasField(gv_in.obj, gv_in.name)
              => gv_ret = FieldOf(gv_in.obj, gv_in.name)
        /\ IsMapping(gv_in.obj) /\ ~HasField(gv_in.obj, gv_in.name)
              => gv_ret = None
        /\ ~IsMapping(gv_in.obj) /\ HasField(gv_in.obj, gv_in.name)
              => gv_ret = FieldOf(gv_in.obj, gv_in.name)
        /\ ~IsMapping(gv_in.obj) /\ ~HasField(gv_in.obj, gv_in.name)
              => gv_ret = None

C1_Witness ==
    /\ gv_pc = "returned"
    /\ DotPositions(gv_in.name) = {}
    /\ gv_in.obj.kind = "object"
    /\ HasField(gv_in.obj, gv_in.name)
    /\ gv_ret = PyStr(<<"x">>)

\* C2: for a path head.rest, a falsy value of head makes the result None
\* whatever rest is, and otherwise the result is that of resolving rest on
\* the value of head; so the result is None as soon as a segment before the
\* last one resolves to a falsy value.
C2_MultiSegment ==
    (gv_pc # "call" /\ DotPositions(gv_in.name) # {}) =>
        LET sub == FieldOf(gv_in.obj, Head(InSegments))
        IN  /\ gv_pc = "returned"
            /\ IsFalsy(sub) => gv_ret = None
            /\ ~IsFalsy(sub) => gv_ret = Resolved(sub, Tail(InSegments))
            /\ FalsyBeforeLast(gv_in.obj, InSegments) => gv_ret = None

\* A falsy instance stops the resolution although it has the next field.
C2_Witness ==
    /\ gv_pc = "returned"
    /\ Len(InSegments) = 2
    /\ LET sub == FieldOf(gv_in.obj, Head(InSegments))
       IN  /\ sub.kind = "object"
           /\ IsFalsy(sub)
           /\ HasField(sub, InSegments[2])
           /\ FieldOf(sub, InSegments[2]) # None
    /\ gv_ret = None

\* A segment before the last one resolves to a truthy value that is neither
\* a mapping nor an object (a non-zero number, a non-empty string)
TruthyScalarBeforeLast(v, segs) ==
    \E i \in 1..(Len(segs) - 1) :
        /\ \A j \in 1..i : ~IsFalsy(Follow(v, SubSeq(segs, 1, j)))
        /\ Follow(v, SubSeq(segs, 1, i)).kind \in {"int", "str"}

\* C7: get_value never raises for a missing field: every call ends by
\* returning a value or None, after at most one recursive call per ".", and
\* the result is None when an intermediate segment resolves to a truthy value
\* that has no fields.
C7_NeverRaises ==
    /\ gv_pc \in {"call", "returned"}
    /\ gv_depth <= Cardinality(DotPositions(gv_in.name))
    /\ gv_pc = "call" => ENABLED GetValueNext
    /\ gv_pc = "returned" =>
          /\ gv_ret.kind # "raise"
          /\ TruthyScalarBeforeLast(gv_in.obj, InSegments) => gv_ret = None

C7_Witness ==
    /\ gv_pc = "returned"
    /\ gv_depth >= 1
    /\ TruthyScalarBeforeLast(gv_in.obj, InSegments)
    /\ gv_ret = None

\* C10: the value of the last segment is returned unchanged, also when it is
\* falsy: get_value(m, p) = m[p] for a mapping m that has key p, and a path
\* whose intermediate segments are all truthy yields the last field as it is.
C10_FinalSegmentUnchanged ==
    gv_pc # "call" =>
        /\ (DotPositions(gv_in.name) = {} /\ IsMapping(gv_in.obj)
                /\ HasField(gv_in.obj, gv_in.name))
              => gv_pc = "returned" /\ gv_ret = FieldOf(gv_in.obj, gv_in.name)
        /\ (~FalsyBeforeLast(gv_in.obj, InSegments)
                /\ IsFalsy(Follow(gv_in.obj, InSegments)))
              => gv_pc = "returned" /\ gv_ret = Follow(gv_in.obj, InSegments)

\* A zero reached through a truthy intermediate is returned as zero.
C10_Witness ==
    /\ gv_pc = "returned"
    /\ gv_depth >= 1
    /\ ~FalsyBeforeLast(gv_in.obj, InSegments)
    /\ HasField(Follow(gv_in.obj, SubSeq(InSegments, 1, Len(InSegments) - 1)),
                InSegments[Len(InSegments)])
    /\ gv_ret = PyInt(0)

---------------------------------------------------------------------------
(* What the specification says of derive_identifier_key, stated on the     *)
(* mapping the call was given.                                             *)

DeriveDone == dk_pc \in {"returned", "raised"}

IdKey == <<"i", "d">>

\* The value under "id"; None when the mapping has no "id"
IdValue == FieldOf(dk_obj, IdKey)

IdPosition == CHOOSE i \in 1..Len(dk_obj.items) : dk_obj.items[i].key = IdKey

EndsInUnderscoreId(k) ==
    /\ Len(k) >= 3
    /\ k[Len(k) - 2] = "_"
    /\ k[Len(k) - 1] = "i"
    /\ k[Len(k)] = "d"

\* The entries rule 2 can select: key ending in "_id", truthy value
Candidates ==
    {i \in 1..Len(dk_obj.items) :
        /\ EndsInUnderscoreId(dk_obj.items[i].key)
        /\ ~IsFalsy(dk_obj.items[i].value)}

FirstCandidate == CHOOSE i \in Candidates : \A j \in Candidates : i <= j

\* C3: a mapping that has "id" with a value other than None yields that
\* value, whatever other keys it has and wherever they are.
C3_IdWins ==
    (DeriveDone /\ HasField(dk_obj, IdKey) /\ IdValue # None) =>
        /\ dk_pc = "returned"
        /\ dk_ret = IdValue

\* A truthy "_id" key placed before "id" does not win over "id".
C3_Witness ==
    /\ dk_pc = "returned"
    /\ Len(dk_obj.items) >= 2
    /\ 1 \in Candidates
    /\ HasField(dk_obj, IdKey)
    /\ IdValue = PyInt(0)
    /\ dk_ret = PyInt(0)

\* C4 as stated: an "id" that is None, empty or otherwise falsy, followed by
\* a key ending in "_id" with a truthy value X (the first such key), yields X.
C4_FalsyIdFallsThrough ==
    (/\ DeriveDone
     /\ HasField(dk_obj, IdKey)
     /\ IsFalsy(IdValue)
     /\ Candidates # {}
     /\ FirstCandidate > IdPosition) =>
        /\ dk_pc = "returned"
        /\ dk_ret = dk_obj.items[FirstCandidate].value

\* C4 as amended: an "id" that is None, followed by a key ending in "_id"
\* with a truthy value X (the first such key), yields X; an "id" that is
\* falsy but not None (the empty string, zero) is returned itself.
C4_NoneIdFallsThrough ==
    (/\ DeriveDone
     /\ HasField(dk_obj, IdKey)
     /\ Candidates # {}
     /\ FirstCandidate > IdPosition) =>
        /\ dk_pc = "returned"
        /\ IdValue = None => dk_ret = dk_obj.items[FirstCandidate].value
        /\ IdValue # None => dk_ret = IdValue

C4_Witness ==
    /\ dk_pc = "returned"
    /\ HasField(dk_obj, IdKey)
    /\ IdValue = None
    /\ Candidates # {}
    /\ FirstCandidate > IdPosition
    /\ dk_ret = PyStr(<<"x">>)

\* C5: when "id" is missing or None, the result is the value of the first
\* entry, in insertion order, whose key ends with "_id" and whose value is
\* truthy; falsy "_id" entries are skipped and later matches do not count.
C5_FirstTruthyUnderscoreId ==
    (DeriveDone /\ IdValue = None /\ Candidates # {}) =>
        /\ dk_pc = "returned"
        /\ dk_ret = dk_obj.items[FirstCandidate].value

\* A falsy "_id" entry first, then two truthy ones with different values.
C5_Witness ==
    /\ dk_pc = "returned"
    /\ IdValue = None
    /\ Len(dk_obj.items) = 3
    /\ EndsInUnderscoreId(dk_obj.items[1].key)
    /\ Candidates = {2, 3}
    /\ dk_obj.items[2].value # dk_obj.items[3].value
    /\ dk_ret = dk_obj.items[2].value

\* C6: the call fails with ValueError("No suitable identifier key found in
\* object") exactly when "id" is missing or None and no key ending in "_id"
\* has a truthy value; otherwise it returns one value, which is not None.
C6_NoIdentifierFound ==
    /\ dk_pc \in {"get", "loop", "check"} => ENABLED DeriveNext
    /\ DeriveDone =>
          /\ dk_pc = "raised" <=> (IdValue = None /\ Candidates = {})
          /\ dk_pc = "raised" =>
                dk_ret = [kind |-> "raise", exc |-> "ValueError",
                          msg |-> "No suitable identifier key found in object"]
          /\ dk_pc = "returned" => dk_ret.kind \notin {"raise", "NoneType"}

\* "id" is None and the only key ending in "_id" has a falsy value.
C6_Witness ==
    /\ dk_pc = "raised"
    /\ HasField(dk_obj, IdKey)
    /\ \E i \in 1..Len(dk_obj.items) :
          /\ EndsInUnderscoreId(dk_obj.items[i].key)
          /\ IsFalsy(dk_obj.items[i].value)
    /\ dk_ret.exc = "ValueError"

---------------------------------------------------------------------------
(* What is claimed of the commands. *)

CallSet == {cli_calls[i] : i \in 1..Len(cli_calls)}

IsPrefix(s, t) == Len(s) <= Len(t) /\ SubSeq(t, 1, Len(s)) = s

SyncCallOrder ==
    <<"get_instance", "get_potenda_from_instance", "source_load",
      "destination_load", "diff", "sync">>

\* C8: a run of the sync command makes its calls in the order source_load,
\* destination_load, diff, sync, each at most once; sync is called only when
\* the adapter initialization and both loads ended without an exception and
\* the diff has differences, and never after a ValueError or an empty diff.
C8_SyncOrder ==
    cli_cmd = "sync" =>
        /\ IsPrefix(cli_calls, SyncCallOrder)
        /\ "sync" \in CallSet =>
              /\ cli_outcome = [potenda |-> "ok", source_load |-> "ok",
                                destination_load |-> "ok"]
              /\ cli_mydiff = "diffs"
        /\ cli_mydiff = "nodiffs" => "sync" \notin CallSet
        /\ (\/ cli_outcome.potenda = "ValueError"
            \/ cli_outcome.source_load = "ValueError"
            \/ cli_outcome.destination_load = "ValueError")
              => cli_status = "aborted" /\ "sync" \notin CallSet

C8_Witness ==
    /\ cli_cmd = "sync"
    /\ cli_status = "done"
    /\ cli_mydiff = "diffs"
    /\ cli_calls = SyncCallOrder

\* The option was given a non-empty value
Given(option) == option.kind = "str" /\ Len(option.s) > 0

ExactlyOneGiven ==
    /\ Given(cli_opts.name) \/ Given(cli_opts.config_file)
    /\ ~(Given(cli_opts.name) /\ Given(cli_opts.config_file))

\* C9: diff, sync and generate, given both of name and config_file or neither,
\* abort with an error before get_instance is called, and call nothing after.
C9_ExactlyOneOption ==
    (cli_cmd \in {"diff", "sync", "generate"} /\ ~ExactlyOneGiven) =>
        /\ cli_calls = <<>>
        /\ cli_pc # "options" =>
              /\ cli_status = "aborted"
              /\ cli_pc = "end"
              /\ Len(cli_console) = 1
              /\ ~ENABLED CliNext

\* generate given both a name and a configuration file
C9_Witness ==
    /\ cli_cmd = "generate"
    /\ Given(cli_opts.name)
    /\ Given(cli_opts.config_file)
    /\ cli_status = "aborted"
    /\ cli_calls = <<>>

=============================================================================
